---- MODULE Spec2Model ----
(***************************************************************************)
(* CreateCircle / CreateCircle2 (src/CreateCircle/main.cpp): the points of *)
(* a regular polygon on the unit circle, written in triangle-strip order   *)
(* into a caller-owned buffer.                                             *)
(*                                                                         *)
(* Arithmetic is exact.  With n = nrOfPoints, every coordinate the         *)
(* functions produce is cos(q*pi/(2n)) for one integer q in 0..2n, and a   *)
(* scalar is modelled by that q (cos is one-to-one on [0,pi]):             *)
(*     1.0 is 0,  0.0 is n,  -1.0 is 2n,  and  -cos(q) is cos(2n - q).     *)
(* An angle is an integer p modulo 4n, in units of 2*pi/(4n); the point at *)
(* angle p is (Cos(p), Sin(p)).                                            *)
(***************************************************************************)
EXTENDS Integers, Sequences, FiniteSets, Bags, TLC

VARIABLES
    nrOfPoints,   \* main(): the point count, also the argument of each call
    fn,           \* the function being executed
    pointsOut,    \* the pointer argument: "null" or "buffer"
    clockwise,    \* the winding argument
    pc,           \* position in the function
    mem,          \* contents of the buffer, one scalar per index
    wlog,         \* per buffer index, the writes this call made to it
    oob,          \* indices outside the buffer this call tried to access
    x, y,         \* the rotating point
    i,            \* the loop counter
    arrayIndex,   \* the write cursor
    reads,        \* the vertices the read-back loop has read
    rotSteps,     \* rotation-loop iterations of this call
    backSteps,    \* read-back-loop iterations of this call
    result,       \* how the call ended
    out           \* the buffer each returned call left, by <<function, winding>>

vars == <<nrOfPoints, fn, pointsOut, clockwise, pc, mem, wlog, oob, x, y, i,
          arrayIndex, reads, rotSteps, backSteps, result, out>>

\* Largest point count the driver passes.
MaxN == 16

Functions == {"CreateCircle", "CreateCircle2"}

\* No value yet: an uninitialised local or buffer slot, a call not made.
Indeterminate == -1

----------------------------------------------------------------------------
\* Scalars and exact trigonometry.

FullTurn == 4 * nrOfPoints
Scalars == 0 .. 2 * nrOfPoints

One == 0
Zero == nrOfPoints
MinusOne == 2 * nrOfPoints

\* Unary minus on a scalar.
Neg(q) == 2 * nrOfPoints - q

Cos(p) == LET r == p % FullTurn IN IF r <= 2 * nrOfPoints THEN r ELSE FullTurn - r
Sin(p) == Cos(p - nrOfPoints)

\* The angle of a point of the unit circle.
AngleOf(px, py) == CHOOSE p \in 0 .. FullTurn - 1 : Cos(p) = px /\ Sin(p) = py

\* Slips in the angle: pi/n instead of 2*pi/n; the winding flag ignored.
Angle_HalfStep == IF clockwise THEN 2 ELSE -2
Angle_IgnoresWinding == IF clockwise THEN 4 ELSE 4

\* angle = clockwise ? 2*pi/n : -2*pi/n, in units of 2*pi/(4n).
Angle == IF clockwise THEN 4 ELSE -4

\* Slip: the sine terms with their signs exchanged, which turns the other way.
Rotate_WrongWay(px, py) ==
    LET t == AngleOf(px, py) + Angle
    IN  <<Cos(t), Sin(t)>>

\* xNew = cosIncr * x + sinIncr * y;  y = sinIncr * -x + cosIncr * y;
\* with (x,y) = (cos t, sin t) that is (cos(t - angle), sin(t - angle)).
Rotate(px, py) ==
    LET t == AngleOf(px, py) - Angle
    IN  <<Cos(t), Sin(t)>>

IsOdd(number) == number % 2 = 1

halfNrOfPoints == nrOfPoints \div 2

\* main(): new float[nrOfPoints * 2]
Capacity == nrOfPoints * 2

\* pointsOut[k] is an element of the caller's array.
InBuffer(k) == pointsOut # "null" /\ k >= 0 /\ k < Capacity

\* A buffer nobody has written yet.
FreshBuffer == [k \in 0 .. Capacity - 1 |-> Indeterminate]
NoWrites == [k \in 0 .. Capacity - 1 |-> <<>>]

\* pointsOut[k] = v for each <<k, v>> of ws, in order.
RECURSIVE StoreAll(_, _)
StoreAll(m, ws) ==
    IF ws = <<>> THEN m
    ELSE LET w == Head(ws)
         IN  StoreAll(IF InBuffer(w[1]) THEN [m EXCEPT ![w[1]] = w[2]] ELSE m, Tail(ws))

\* The same stores, recorded per index with the part of the function that made them.
RECURSIVE LogAll(_, _, _)
LogAll(l, ws, tag) ==
    IF ws = <<>> THEN l
    ELSE LET w == Head(ws)
         IN  LogAll(IF InBuffer(w[1]) THEN [l EXCEPT ![w[1]] = Append(@, tag)] ELSE l,
                    Tail(ws), tag)

OutOfBounds(ws) == {ws[k][1] : k \in DOMAIN ws} \ {k \in 0 .. Capacity - 1 : InBuffer(k)}

\* The stores of one step.  A store outside the buffer is undefined behaviour:
\* the call is lost ("undefined") and nothing more is said about it.
Emit(ws, tag, next) ==
    /\ mem' = StoreAll(mem, ws)
    /\ wlog' = LogAll(wlog, ws, tag)
    /\ oob' = oob \cup OutOfBounds(ws)
    /\ pc' = IF OutOfBounds(ws) = {} THEN next ELSE "undefined"
    /\ result' = IF OutOfBounds(ws) = {} THEN result ELSE "undefined"

\* What a read of pointsOut[k] can yield: an unwritten slot holds anything.
ReadValues(k) == IF mem[k] = Indeterminate THEN Scalars ELSE {mem[k]}

\* return: the caller now holds the filled buffer.
Returned(m) ==
    [k \in DOMAIN out \cup {<<fn, clockwise>>} |->
        IF k = <<fn, clockwise>> THEN m ELSE out[k]]

\* assert(cursor == nrOfPoints * 2) and the return after it.  The product is an
\* unsigned int; it does not wrap for the point counts of this model.
AssertAndReturn(cursor, m) ==
    IF cursor = nrOfPoints * 2
    THEN /\ pc' = "returned"
         /\ result' = "ok"
         /\ out' = Returned(m)
    ELSE /\ pc' = "aborted"
         /\ result' = "assert"
         /\ out' = out

----------------------------------------------------------------------------
\* The driver: a point count, a buffer of 2 * nrOfPoints scalars, calls.

Init ==
    /\ nrOfPoints \in 0 .. MaxN
    /\ fn = "none"
    /\ pointsOut = "null"
    /\ clockwise = TRUE
    /\ pc = "idle"
    /\ mem = FreshBuffer
    /\ wlog = NoWrites
    /\ oob = {}
    /\ x = Indeterminate
    /\ y = Indeterminate
    /\ i = Indeterminate
    /\ arrayIndex = Indeterminate
    /\ reads = {}
    /\ rotSteps = 0
    /\ backSteps = 0
    /\ result = "none"
    /\ out = <<>>

Call ==
    /\ pc \in {"idle", "returned", "thrown"}
    /\ \E f \in Functions, p \in {"null", "buffer"}, cw \in BOOLEAN :
        /\ fn' = f
        /\ pointsOut' = p
        /\ clockwise' = cw
    /\ pc' = "entry"
    /\ mem' = FreshBuffer
    /\ wlog' = NoWrites
    /\ oob' = {}
    /\ x' = Indeterminate
    /\ y' = Indeterminate
    /\ i' = Indeterminate
    /\ arrayIndex' = Indeterminate
    /\ reads' = {}
    /\ rotSteps' = 0
    /\ backSteps' = 0
    /\ result' = "none"
    /\ UNCHANGED <<nrOfPoints, out>>

----------------------------------------------------------------------------
\* CreateCircle: half of the points are rotated, the other half mirrored.

\* if (pointsOut == nullptr)
CC_NullPointer == pointsOut = "null"

CC_Throw ==
    /\ fn = "CreateCircle" /\ pc = "entry"
    /\ CC_NullPointer
    /\ pc' = "thrown"
    /\ result' = "InvalidArgument"
    /\ UNCHANGED <<nrOfPoints, fn, pointsOut, clockwise, mem, wlog, oob, x, y, i,
                   arrayIndex, reads, rotSteps, backSteps, out>>

CC_FirstOdd ==
    /\ fn = "CreateCircle" /\ pc = "entry"
    /\ ~CC_NullPointer
    /\ IsOdd(nrOfPoints)
    /\ arrayIndex' = 2
    /\ x' = Zero
    /\ y' = One
    /\ i' = 0
    /\ Emit(<< <<0, Zero>>, <<1, One>> >>, "first", "oddLoop")
    /\ UNCHANGED <<nrOfPoints, fn, pointsOut, clockwise, reads, rotSteps, backSteps, out>>

\* Slip: one iteration too many.
CC_OddContinues_Inclusive == i <= halfNrOfPoints

\* for (i = 0; i < halfNrOfPoints; ++i)
CC_OddContinues == i < halfNrOfPoints

CC_OddStep ==
    /\ fn = "CreateCircle" /\ pc = "oddLoop"
    /\ CC_OddContinues
    /\ LET r == Rotate(x, y)
       IN  /\ x' = r[1]
           /\ y' = r[2]
           /\ Emit(<< <<arrayIndex, r[1]>>, <<arrayIndex + 1, r[2]>>,
                      <<arrayIndex + 2, Neg(r[1])>>, <<arrayIndex + 3, r[2]>> >>,
                   "rotate", "oddLoop")
    /\ arrayIndex' = arrayIndex + 4
    /\ i' = i + 1
    /\ rotSteps' = rotSteps + 1
    /\ UNCHANGED <<nrOfPoints, fn, pointsOut, clockwise, reads, backSteps, out>>

CC_OddAssert ==
    /\ fn = "CreateCircle" /\ pc = "oddLoop"
    /\ ~CC_OddContinues
    /\ AssertAndReturn(arrayIndex, mem)
    /\ UNCHANGED <<nrOfPoints, fn, pointsOut, clockwise, mem, wlog, oob, x, y, i,
                   arrayIndex, reads, rotSteps, backSteps>>

CC_FirstEven ==
    /\ fn = "CreateCircle" /\ pc = "entry"
    /\ ~CC_NullPointer
    /\ ~IsOdd(nrOfPoints)
    /\ arrayIndex' = 2
    /\ x' = One
    /\ y' = Zero
    /\ i' = 0
    /\ Emit(<< <<0, One>>, <<1, Zero>> >>, "first", "evenLoop")
    /\ UNCHANGED <<nrOfPoints, fn, pointsOut, clockwise, reads, rotSteps, backSteps, out>>

\* Slip: the "- 1" that leaves room for the last point forgotten.
CC_EvenContinues_OffByOne == i < halfNrOfPoints

\* i < halfNrOfPoints - 1 on unsigned int: with halfNrOfPoints = 0 the right side
\* is UINT_MAX, above every counter value of this model.
CC_EvenContinues == IF halfNrOfPoints = 0 THEN TRUE ELSE i < halfNrOfPoints - 1

CC_EvenStep ==
    /\ fn = "CreateCircle" /\ pc = "evenLoop"
    /\ CC_EvenContinues
    /\ LET r == Rotate(x, y)
       IN  /\ x' = r[1]
           /\ y' = r[2]
           /\ Emit(<< <<arrayIndex, r[1]>>, <<arrayIndex + 1, r[2]>>,
                      <<arrayIndex + 2, r[1]>>, <<arrayIndex + 3, Neg(r[2])>> >>,
                   "rotate", "evenLoop")
    /\ arrayIndex' = arrayIndex + 4
    /\ i' = i + 1
    /\ rotSteps' = rotSteps + 1
    /\ UNCHANGED <<nrOfPoints, fn, pointsOut, clockwise, reads, backSteps, out>>

CC_LastPoint ==
    /\ fn = "CreateCircle" /\ pc = "evenLoop"
    /\ ~CC_EvenContinues
    /\ LET ws == << <<arrayIndex, MinusOne>>, <<arrayIndex + 1, Zero>> >>
       IN  /\ mem' = StoreAll(mem, ws)
           /\ wlog' = LogAll(wlog, ws, "last")
           /\ oob' = oob \cup OutOfBounds(ws)
           /\ IF OutOfBounds(ws) = {}
              THEN AssertAndReturn(arrayIndex + 2, mem')
              ELSE pc' = "undefined" /\ result' = "undefined" /\ out' = out
    /\ UNCHANGED <<nrOfPoints, fn, pointsOut, clockwise, x, y, i, arrayIndex, reads,
                   rotSteps, backSteps>>

----------------------------------------------------------------------------
\* CreateCircle2: for an even count a quarter of the points are rotated, the
\* rest are mirrored, the left half from points read back out of the buffer.

\* Slip: the null check left out.
CC2_NullPointer_Unchecked == FALSE

\* if (pointsOut == nullptr)
CC2_NullPointer == pointsOut = "null"

CC2_Throw ==
    /\ fn = "CreateCircle2" /\ pc = "entry"
    /\ CC2_NullPointer
    /\ pc' = "thrown"
    /\ result' = "InvalidArgument"
    /\ UNCHANGED <<nrOfPoints, fn, pointsOut, clockwise, mem, wlog, oob, x, y, i,
                   arrayIndex, reads, rotSteps, backSteps, out>>

CC2_FirstOdd ==
    /\ fn = "CreateCircle2" /\ pc = "entry"
    /\ ~CC2_NullPointer
    /\ IsOdd(nrOfPoints)
    /\ arrayIndex' = 2
    /\ x' = Zero
    /\ y' = One
    /\ i' = 0
    /\ Emit(<< <<0, Zero>>, <<1, One>> >>, "first", "oddLoop")
    /\ UNCHANGED <<nrOfPoints, fn, pointsOut, clockwise, reads, rotSteps, backSteps, out>>

\* for (i = 0; i < halfNrOfPoints; ++i)
CC2_OddContinues == i < halfNrOfPoints

CC2_OddStep ==
    /\ fn = "CreateCircle2" /\ pc = "oddLoop"
    /\ CC2_OddContinues
    /\ LET r == Rotate(x, y)
       IN  /\ x' = r[1]
           /\ y' = r[2]
           /\ Emit(<< <<arrayIndex, r[1]>>, <<arrayIndex + 1, r[2]>>,
                      <<arrayIndex + 2, Neg(r[1])>>, <<arrayIndex + 3, r[2]>> >>,
                   "rotate", "oddLoop")
    /\ arrayIndex' = arrayIndex + 4
    /\ i' = i + 1
    /\ rotSteps' = rotSteps + 1
    /\ UNCHANGED <<nrOfPoints, fn, pointsOut, clockwise, reads, backSteps, out>>

CC2_OddAssert ==
    /\ fn = "CreateCircle2" /\ pc = "oddLoop"
    /\ ~CC2_OddContinues
    /\ AssertAndReturn(arrayIndex, mem)
    /\ UNCHANGED <<nrOfPoints, fn, pointsOut, clockwise, mem, wlog, oob, x, y, i,
                   arrayIndex, reads, rotSteps, backSteps>>

CC2_FirstEven ==
    /\ fn = "CreateCircle2" /\ pc = "entry"
    /\ ~CC2_NullPointer
    /\ ~IsOdd(nrOfPoints)
    /\ arrayIndex' = 2
    /\ x' = One
    /\ y' = Zero
    /\ i' = 0
    /\ Emit(<< <<0, One>>, <<1, Zero>> >>, "first", "quarterLoop")
    /\ UNCHANGED <<nrOfPoints, fn, pointsOut, clockwise, reads, rotSteps, backSteps, out>>

\* for (i = 0; i < halfNrOfPoints / 2; ++i), on int
CC2_QuarterContinues == i < halfNrOfPoints \div 2

CC2_QuarterStep ==
    /\ fn = "CreateCircle2" /\ pc = "quarterLoop"
    /\ CC2_QuarterContinues
    /\ LET r == Rotate(x, y)
       IN  /\ x' = r[1]
           /\ y' = r[2]
           /\ Emit(<< <<arrayIndex, r[1]>>, <<arrayIndex + 1, r[2]>>,
                      <<arrayIndex + 2, r[1]>>, <<arrayIndex + 3, Neg(r[2])>> >>,
                   "rotate", "quarterLoop")
    /\ arrayIndex' = arrayIndex + 4
    /\ i' = i + 1
    /\ rotSteps' = rotSteps + 1
    /\ UNCHANGED <<nrOfPoints, fn, pointsOut, clockwise, reads, backSteps, out>>

\* Slips in the parity rule: the two cases exchanged; the rule left out.
startIndex_ParitySwapped ==
    IF halfNrOfPoints % 2 # 0 THEN halfNrOfPoints - 3 ELSE halfNrOfPoints - 2
startIndex_NoParity == halfNrOfPoints - 2

\* startIndex = halfNrOfPoints % 2 ? halfNrOfPoints - 2 : halfNrOfPoints - 3
startIndex ==
    IF halfNrOfPoints % 2 # 0 THEN halfNrOfPoints - 2 ELSE halfNrOfPoints - 3

\* The rotation loop is left and the read-back loop's counter is set up.
CC2_StartIndex ==
    /\ fn = "CreateCircle2" /\ pc = "quarterLoop"
    /\ ~CC2_QuarterContinues
    /\ i' = startIndex
    /\ pc' = "backLoop"
    /\ UNCHANGED <<nrOfPoints, fn, pointsOut, clockwise, mem, wlog, oob, x, y,
                   arrayIndex, reads, rotSteps, backSteps, result, out>>

\* for (i = startIndex; i > 0; i -= 2)
CC2_BackContinues == i > 0

CC2_BackStep ==
    /\ fn = "CreateCircle2" /\ pc = "backLoop"
    /\ CC2_BackContinues
    /\ IF InBuffer(i * 2) /\ InBuffer(i * 2 + 1)
       THEN /\ reads' = reads \cup {[vertex |-> i, xBy |-> wlog[i * 2],
                                     yBy |-> wlog[i * 2 + 1]]}
            /\ \E vx \in ReadValues(i * 2), vy \in ReadValues(i * 2 + 1) :
                /\ x' = vx
                /\ y' = vy
                /\ Emit(<< <<arrayIndex, Neg(vx)>>, <<arrayIndex + 1, vy>>,
                           <<arrayIndex + 2, Neg(vx)>>, <<arrayIndex + 3, Neg(vy)>> >>,
                        "back", "backLoop")
            /\ arrayIndex' = arrayIndex + 4
            /\ i' = i - 2
            /\ backSteps' = backSteps + 1
       ELSE \* a read outside the buffer: undefined behaviour
            /\ oob' = oob \cup {k \in {i * 2, i * 2 + 1} : ~InBuffer(k)}
            /\ pc' = "undefined"
            /\ result' = "undefined"
            /\ UNCHANGED <<mem, wlog, x, y, i, arrayIndex, reads, backSteps>>
    /\ UNCHANGED <<nrOfPoints, fn, pointsOut, clockwise, rotSteps, out>>

CC2_LastPoint ==
    /\ fn = "CreateCircle2" /\ pc = "backLoop"
    /\ ~CC2_BackContinues
    /\ LET ws == << <<arrayIndex, MinusOne>>, <<arrayIndex + 1, Zero>> >>
       IN  /\ mem' = StoreAll(mem, ws)
           /\ wlog' = LogAll(wlog, ws, "last")
           /\ oob' = oob \cup OutOfBounds(ws)
           /\ IF OutOfBounds(ws) = {}
              THEN AssertAndReturn(arrayIndex + 2, mem')
              ELSE pc' = "undefined" /\ result' = "undefined" /\ out' = out
    /\ UNCHANGED <<nrOfPoints, fn, pointsOut, clockwise, x, y, i, arrayIndex, reads,
                   rotSteps, backSteps>>

----------------------------------------------------------------------------

\* One step of the function in progress.
Step ==
    \/ CC_Throw \/ CC_FirstOdd \/ CC_OddStep \/ CC_OddAssert
    \/ CC_FirstEven \/ CC_EvenStep \/ CC_LastPoint
    \/ CC2_Throw \/ CC2_FirstOdd \/ CC2_OddStep \/ CC2_OddAssert
    \/ CC2_FirstEven \/ CC2_QuarterStep \/ CC2_StartIndex \/ CC2_BackStep
    \/ CC2_LastPoint

Next == Call \/ Step

Spec == Init /\ [][Next]_vars

\* A call runs to its end: the functions are synchronous and nothing preempts them.
FairSpec == Spec /\ WF_vars(Step)

----------------------------------------------------------------------------
\* Reading a buffer as the caller does: vertex k is (buf[2k], buf[2k+1]).

Vertices == 0 .. nrOfPoints - 1
Point(buf, k) == <<buf[2 * k], buf[2 * k + 1]>>
PointSet(buf) == {Point(buf, k) : k \in Vertices}
PointBag(buf) ==
    [p \in PointSet(buf) |-> Cardinality({k \in Vertices : Point(buf, k) = p})]
At(p) == <<Cos(p), Sin(p)>>
MirrorLeftRight(pt) == <<Neg(pt[1]), pt[2]>>
MirrorTopBottom(pt) == <<pt[1], Neg(pt[2])>>

Has(f, cw) == <<f, cw>> \in DOMAIN out
StepOf(cw) == IF cw THEN 4 ELSE -4

\* A call that got a buffer and a positive count.
ProperCall == fn \in Functions /\ pointsOut = "buffer" /\ nrOfPoints >= 1
Ended == pc \in {"returned", "thrown", "aborted", "undefined"}
WrittenOnce == \A k \in 0 .. Capacity - 1 : Len(wlog[k]) = 1

\* C1: for every n >= 1 and either winding, both functions write each index of
\* 0..2n-1 exactly once, write no index >= 2n, and end with the cursor at 2n
\* (the assert of the branch taken holds).
C1_ExactlyTwoNWrites ==
    ProperCall =>
        /\ oob = {}
        /\ \A k \in 0 .. Capacity - 1 : Len(wlog[k]) <= 1
        /\ pc \notin {"aborted", "undefined", "thrown"}
        /\ pc = "returned" =>
            /\ WrittenOnce
            /\ result = "ok"
            /\ IF IsOdd(nrOfPoints) THEN arrayIndex = 2 * nrOfPoints
                                    ELSE arrayIndex + 2 = 2 * nrOfPoints

C1_Witness ==
    /\ ProperCall /\ pc = "returned" /\ fn = "CreateCircle2"
    /\ backSteps >= 2 /\ WrittenOnce /\ arrayIndex + 2 = 2 * nrOfPoints

\* C2: with n = 0 and a non-null buffer both functions reject the call with
\* InvalidArgument and attempt no write.
C2_ZeroCountRejected ==
    (fn \in Functions /\ pointsOut = "buffer" /\ nrOfPoints = 0) =>
        /\ oob = {}
        /\ \A k \in 0 .. Capacity - 1 : wlog[k] = <<>>
        /\ pc \in {"entry", "thrown"}
        /\ pc = "thrown" => result = "InvalidArgument"

\* C3: with a null buffer both functions fail with InvalidArgument, for every n
\* and either winding, before any slot is written or any loop is entered.
C3_NullRejected ==
    (fn \in Functions /\ pointsOut = "null") =>
        /\ pc \in {"entry", "thrown"}
        /\ pc = "thrown" <=> result = "InvalidArgument"
        /\ oob = {}
        /\ \A k \in 0 .. Capacity - 1 : wlog[k] = <<>>
        /\ mem = FreshBuffer
        /\ rotSteps = 0 /\ backSteps = 0 /\ reads = {}
        /\ <<x, y, i, arrayIndex>> = <<Indeterminate, Indeterminate, Indeterminate, Indeterminate>>

C3_Witness ==
    /\ fn = "CreateCircle2" /\ pointsOut = "null" /\ ~clockwise /\ nrOfPoints = 0
    /\ pc = "thrown" /\ result = "InvalidArgument"

\* The regular n-gon anchored at the top point for odd n, at the right-most
\* point for even n.
Anchor == IF IsOdd(nrOfPoints) THEN nrOfPoints ELSE 0
Polygon == {At(Anchor + 4 * k) : k \in Vertices}

\* C4: the n points CreateCircle emits are exactly the n vertices of that
\* polygon, each emitted once.
C4_HalfSymmetryIsPolygon ==
    \A cw \in BOOLEAN :
        Has("CreateCircle", cw) =>
            LET buf == out[<<"CreateCircle", cw>>]
            IN  /\ PointSet(buf) = Polygon
                /\ Cardinality(Polygon) = nrOfPoints
                /\ \A j, k \in Vertices : j # k => Point(buf, j) # Point(buf, k)

C4_Witness ==
    /\ nrOfPoints = 7 /\ Has("CreateCircle", FALSE)
    /\ PointSet(out[<<"CreateCircle", FALSE>>]) = Polygon
    /\ Cardinality(Polygon) = 7

\* C5: for even n >= 2 and either winding, the multiset of points CreateCircle2
\* emits is the multiset CreateCircle emits for the same n: no point is emitted
\* twice and no vertex is skipped.
C5_SameMultiset ==
    ( /\ ProperCall /\ fn = "CreateCircle2" /\ ~IsOdd(nrOfPoints)
      /\ Ended /\ Has("CreateCircle", clockwise) ) =>
        PointBag(mem) = PointBag(out[<<"CreateCircle", clockwise>>])

C5_Witness ==
    /\ fn = "CreateCircle2" /\ nrOfPoints = 12 /\ pc = "returned"
    /\ Has("CreateCircle", clockwise)
    /\ PointBag(mem) = PointBag(out[<<"CreateCircle", clockwise>>])

\* C6 as claimed: for every n >= 1 and each function the two windings give the
\* same set of points, and vertex k of one is vertex k of the other with its
\* y-coordinate negated.
C6_WindingNegatesY ==
    \A f \in Functions :
        (Has(f, TRUE) /\ Has(f, FALSE)) =>
            /\ PointSet(out[<<f, TRUE>>]) = PointSet(out[<<f, FALSE>>])
            /\ \A k \in Vertices :
                Point(out[<<f, FALSE>>], k) = MirrorTopBottom(Point(out[<<f, TRUE>>], k))

\* C6 amended: the two windings give the same set of points; vertex k of one is
\* vertex k of the other with its y-coordinate negated when n is even and with
\* its x-coordinate negated when n is odd.
C6_WindingMirrors ==
    \A f \in Functions :
        (Has(f, TRUE) /\ Has(f, FALSE)) =>
            /\ PointSet(out[<<f, TRUE>>]) = PointSet(out[<<f, FALSE>>])
            /\ \A k \in Vertices :
                Point(out[<<f, FALSE>>], k) =
                    IF IsOdd(nrOfPoints)
                    THEN MirrorLeftRight(Point(out[<<f, TRUE>>], k))
                    ELSE MirrorTopBottom(Point(out[<<f, TRUE>>], k))

C6_Witness ==
    /\ nrOfPoints = 5
    /\ Has("CreateCircle", TRUE) /\ Has("CreateCircle", FALSE)
    /\ Point(out[<<"CreateCircle", FALSE>>], 1) =
           MirrorLeftRight(Point(out[<<"CreateCircle", TRUE>>], 1))
    /\ Point(out[<<"CreateCircle", FALSE>>], 1) #
           MirrorTopBottom(Point(out[<<"CreateCircle", TRUE>>], 1))

\* C7: CreateCircle emits in interleaved strip order.  Odd n: vertex 0 is (0,1),
\* vertex 2k-1 is the start rotated k steps and vertex 2k its mirror (-x, y), for
\* k in 1..n/2.  Even n: vertex 0 is (1,0), vertex 2k-1 is the start rotated k
\* steps and vertex 2k its mirror (x, -y), for k in 1..n/2-1, and the last vertex
\* is (-1,0), emitted once.
C7_StripOrder ==
    \A cw \in BOOLEAN :
        Has("CreateCircle", cw) =>
            LET buf == out[<<"CreateCircle", cw>>]
                Turned(k) == At(Anchor - k * StepOf(cw))
            IN  IF IsOdd(nrOfPoints)
                THEN /\ Point(buf, 0) = <<Zero, One>>
                     /\ \A k \in 1 .. halfNrOfPoints :
                            /\ Point(buf, 2 * k - 1) = Turned(k)
                            /\ Point(buf, 2 * k) = MirrorLeftRight(Turned(k))
                ELSE /\ Point(buf, 0) = <<One, Zero>>
                     /\ \A k \in 1 .. halfNrOfPoints - 1 :
                            /\ Point(buf, 2 * k - 1) = Turned(k)
                            /\ Point(buf, 2 * k) = MirrorTopBottom(Turned(k))
                     /\ Point(buf, nrOfPoints - 1) = <<MinusOne, Zero>>
                     /\ Cardinality({k \in Vertices : Point(buf, k) = <<MinusOne, Zero>>}) = 1

C7_Witness ==
    /\ nrOfPoints = 10 /\ Has("CreateCircle", TRUE)
    /\ Point(out[<<"CreateCircle", TRUE>>], 7) = At(-16)
    /\ Point(out[<<"CreateCircle", TRUE>>], 8) = At(16)
    /\ Point(out[<<"CreateCircle", TRUE>>], 9) = <<MinusOne, Zero>>

\* C8: for every n >= 1 and either winding, the vertex CreateCircle2 writes at
\* each index is the point CreateCircle writes at that index.
C8_SameOrder ==
    ( /\ ProperCall /\ fn = "CreateCircle2"
      /\ Ended /\ Has("CreateCircle", clockwise) ) =>
        mem = out[<<"CreateCircle", clockwise>>]

C8_Witness ==
    /\ fn = "CreateCircle2" /\ nrOfPoints = 16 /\ pc = "returned" /\ backSteps = 3
    /\ Has("CreateCircle", clockwise)
    /\ mem = out[<<"CreateCircle", clockwise>>]

\* The read-back loop's first index as the parity rule gives it.
FirstRead == IF IsOdd(halfNrOfPoints) THEN halfNrOfPoints - 2 ELSE halfNrOfPoints - 3

\* C9: in CreateCircle2 with even n >= 2 the read-back loop reads the vertices
\* FirstRead, FirstRead - 2, ... down to 1; each is odd, lies in 1 .. (vertices
\* written by the rotation pass) - 1, and was written by the rotation pass of the
\* same call, so no slot the call has not written is read.
C9_ReadBackInsideFirstPass ==
    (ProperCall /\ fn = "CreateCircle2" /\ ~IsOdd(nrOfPoints)) =>
        /\ \A r \in reads :
            /\ r.vertex % 2 = 1
            /\ 1 <= r.vertex /\ r.vertex <= (1 + 2 * rotSteps) - 1
            /\ r.xBy = <<"rotate">> /\ r.yBy = <<"rotate">>
        /\ pc # "undefined"
        /\ (pc = "backLoop" /\ backSteps = 0) => i = FirstRead
        /\ pc = "backLoop" =>
            {r.vertex : r \in reads} = {v \in i + 1 .. FirstRead : (FirstRead - v) % 2 = 0}
        /\ pc = "returned" =>
            {r.vertex : r \in reads} = {v \in 1 .. FirstRead : (FirstRead - v) % 2 = 0}

C9_Witness ==
    /\ fn = "CreateCircle2" /\ nrOfPoints = 16 /\ pc = "returned"
    /\ {r.vertex : r \in reads} = {1, 3, 5}
    /\ \A r \in reads : r.xBy = <<"rotate">> /\ r.yBy = <<"rotate">>

\* The iteration counts of a finished call.
ExpectedSteps ==
    IF IsOdd(nrOfPoints) THEN <<halfNrOfPoints, 0>>
    ELSE IF fn = "CreateCircle" THEN <<halfNrOfPoints - 1, 0>>
    ELSE <<halfNrOfPoints \div 2, halfNrOfPoints - 1 - halfNrOfPoints \div 2>>

\* C10: every call with n >= 1 and a non-null buffer terminates, after at most
\* n/2 loop iterations: n/2 rotations for odd n; n/2 - 1 rotations for even n in
\* CreateCircle; (n/2)/2 rotations then n/2 - 1 - (n/2)/2 read-backs for even n in
\* CreateCircle2.
C10_Terminates ==
    /\ [](ProperCall => rotSteps + backSteps <= halfNrOfPoints)
    /\ []((ProperCall /\ Ended) => (pc = "returned" /\ <<rotSteps, backSteps>> = ExpectedSteps))
    /\ (ProperCall /\ pc = "entry") ~> (pc = "returned")

C10_Witness ==
    /\ ProperCall /\ fn = "CreateCircle2" /\ nrOfPoints = 14 /\ pc = "returned"
    /\ rotSteps = 3 /\ backSteps = 3

====
